---- MODULE Spec2Model ----
(***************************************************************************)
(* Model of the MoQ Unity native plugin (MoqNativePlugin.cpp): the global  *)
(* handle registry, the per-session worker thread that produces frames    *)
(* into a bounded queue, and the foreground API that drains and reads      *)
(* them.  Locks are modelled by their holder; every API call holds the    *)
(* registry lock from its first statement to its return.                   *)
(***************************************************************************)
EXTENDS Integers, Sequences, FiniteSets, TLC

\* ---------------------------------------------------------------- bounds
MaxClients == 2      \* number of MoqCreateClient calls in a run
MaxLive    == 1      \* sessions the callers keep alive at the same time
MaxIters   == 1      \* worker loop iterations (all sessions) in a run

\* ------------------------------------------------------ program constants
QueueCapacity     == 5
FrameWidth        == 640
FrameHeight       == 480
BytesPerPixel     == 4
TimestampStep     == 16667
GradientPeriod    == 255
StatusDisconnected == 0
StatusConnecting  == 1
StatusConnected   == 2
StatusUnknown     == -1

\* The largest int (32 bits, two's complement).
Int32Max == (2^30 - 1) * 2 + 1
\* 64-bit values are held in two limbs of 16 bits.
LimbBase == 2^16
HalfLimb == 2^15

\* int + 1 in 32-bit two's complement.
Inc32(n) == IF n = Int32Max THEN -Int32Max - 1 ELSE n + 1

\* A 64-bit integer v is held as [hi, lo] with v = hi * 2^16 + lo and
\* 0 <= lo < 2^16, so that no intermediate value leaves the checker's
\* integer range.
Int64(hi, lo) == [hi |-> hi, lo |-> lo]

\* The exact product a * b of two non-negative ints, b < 2^15.
Product(a, b) ==
    LET low == (a % LimbBase) * b
    IN  Int64((a \div LimbBase) * b + (low \div LimbBase), low % LimbBase)

\* v fits in a 32-bit signed int.
InInt32(v) == v.hi >= -HalfLimb /\ v.hi < HalfLimb

\* v reduced to a 32-bit signed int by two's-complement wrap-around.
Wrap32(v) == Int64(((v.hi + HalfLimb) % LimbBase) - HalfLimb, v.lo)

\* a < b on 64-bit integers.
Less64(a, b) == a.hi < b.hi \/ (a.hi = b.hi /\ a.lo < b.lo)

\* ------------------------------------------------------------- the domain
Handles == 1 .. MaxClients
NoThread == 0
Caller == 1                           \* holder id of a calling thread
Worker == -1                          \* holder id of a session's own worker

FrameBytes == FrameWidth * FrameHeight * BytesPerPixel

\* Handles a caller may pass: registered ones, 0, a negative one.
HandleArgs == (-1 .. 0) \cup Handles
\* Buffer sizes a caller may pass to MoqGetFrameData.
BufferSizes == {FrameBytes - 1, FrameBytes, FrameBytes + 1}

NoValue == "none"

\* DecodedFrame as default-constructed.  The pixel vector is represented by
\* its length and by its first byte, the phase of the gradient; n is the
\* production index of the frame (not a field of the struct).
DefaultFrame ==
    [width |-> 0, height |-> 0, len |-> 0, phase |-> 0,
     timestamp |-> Int64(0, 0), n |-> -1]

\* One byte of the animated gradient of frame number fc.
Pixel(fc, x, y, c) ==
    CASE c = 0 -> (x + fc) % GradientPeriod
      [] c = 1 -> (y + fc * 2) % GradientPeriod
      [] c = 2 -> (x + y + fc * 3) % GradientPeriod
      [] OTHER -> 255

\* The values `frameCount * 16667` can take: the product is an int, so once
\* it leaves the int range the behaviour is undefined; a build either wraps
\* (32-bit multiply) or keeps the exact value (widened multiply).
TimestampOutcomes(fc) ==
    IF InInt32(Product(fc, TimestampStep))
    THEN {Product(fc, TimestampStep)}
    ELSE {Wrap32(Product(fc, TimestampStep)), Product(fc, TimestampStep)}

\* Mutant: the pixel vector sized for three bytes per pixel.
GeneratedFrame_RGB(fc, ts) ==
    [width |-> FrameWidth, height |-> FrameHeight,
     len |-> FrameWidth * FrameHeight * (BytesPerPixel - 1),
     phase |-> Pixel(fc, 0, 0, 0), timestamp |-> ts, n |-> fc]

\* The frame the worker generates in iteration fc with timestamp ts.
GeneratedFrame(fc, ts) ==
    [width |-> FrameWidth, height |-> FrameHeight,
     len |-> FrameWidth * FrameHeight * BytesPerPixel,
     phase |-> Pixel(fc, 0, 0, 0), timestamp |-> ts, n |-> fc]

VARIABLES
    g_clients,          \* handles present in the registry map
    g_nextClientId,     \* next handle to hand out
    g_clientsMutex,     \* thread holding the registry lock, or NoThread
    call,               \* the create or destroy in progress under the registry lock
    last,               \* what the most recently completed call returned
    running_,           \* per session: the worker's run flag
    connectionStatus_,  \* per session
    frameQueue_,        \* per session: sequence of frames
    currentFrame_,      \* per session
    hasNewFrame_,       \* per session
    mutex_,             \* per session: holder of the session lock
    wpc,                \* per session: where its worker thread is ("none"
                        \* before the thread exists, "exited" once it returned)
    frameCount,         \* per session: the worker's local counter
    frame,              \* per session: the worker's local frame
    iters,              \* worker loop iterations performed in this run
    created,            \* history: handles returned by create, in order
    destroyed,          \* handles whose session has been destroyed
    consumed            \* history: data read and no frame drained since

vars == <<g_clients, g_nextClientId, g_clientsMutex, call, last, running_,
          connectionStatus_, frameQueue_, currentFrame_, hasNewFrame_, mutex_,
          wpc, frameCount, frame, iters, created, destroyed, consumed>>

registryVars == <<g_clients, g_nextClientId>>
sessionVars == <<running_, connectionStatus_, frameQueue_, currentFrame_,
                 hasNewFrame_>>
workerVars == <<wpc, frameCount, frame, iters>>
historyVars == <<created, destroyed, consumed>>

\* No thread is inside MoqCreateClient or MoqDestroyClient.
NoCall == [pc |-> "idle", op |-> NoValue, handle |-> 0]
\* An int out-parameter or int result that the call did not write.
Unwritten == -Int32Max - 1

\* A caller's buffer into which nothing was copied.
NoCopy == [len |-> 0, phase |-> 0, n |-> -1]

\* The outcome of a call: ok is the bool it returned (FALSE for a function
\* that returns none), value the int it returned, width and height the
\* out-parameters, copied what it left in the caller's buffer; target tells
\* what the handle passed named: a registered session, a session destroyed
\* before the call ("destroyed"), or none ("unknown").
Outcome(op, ok, value) ==
    [op |-> op, ok |-> ok, value |-> value, width |-> Unwritten,
     height |-> Unwritten, copied |-> NoCopy, target |-> "session"]

\* The outcome of a function that returns the bool b.
BoolResult(op, b) == Outcome(op, b, Unwritten)

\* The outcome of a function that returns the int v.
IntResult(op, v) == Outcome(op, FALSE, v)

\* The outcome of a function that returns nothing.
Returned(op) == Outcome(op, FALSE, Unwritten)

\* No call has returned yet.
NoResult == [Outcome(NoValue, FALSE, Unwritten) EXCEPT !.target = NoValue]

\* ------------------------------------------------------------------ Init
Init ==
    /\ g_clients = {}
    /\ g_nextClientId = 1
    /\ g_clientsMutex = NoThread
    /\ call = NoCall
    /\ last = NoResult
    /\ running_ = [h \in Handles |-> FALSE]
    /\ connectionStatus_ = [h \in Handles |-> StatusDisconnected]
    /\ frameQueue_ = [h \in Handles |-> <<>>]
    /\ currentFrame_ = [h \in Handles |-> DefaultFrame]
    /\ hasNewFrame_ = [h \in Handles |-> FALSE]
    /\ mutex_ = [h \in Handles |-> NoThread]
    /\ wpc = [h \in Handles |-> "none"]
    /\ frameCount = [h \in Handles |-> 0]
    /\ frame = [h \in Handles |-> DefaultFrame]
    /\ iters = 0
    /\ created = <<>>
    /\ destroyed = {}
    /\ consumed = [h \in Handles |-> FALSE]

\* ------------------------------------------------------------ the registry
\* g_clients.find(h) != g_clients.end()
Registered(h) == h \in g_clients

\* std::lock_guard on g_clientsMutex: the lock can be taken.
RegistryFree == g_clientsMutex = NoThread

\* std::lock_guard on a session's mutex_: the lock can be taken.
SessionFree(h) == mutex_[h] = NoThread

\* Mutant: an unknown handle reported as a disconnected session.
NotFound_AsIdle(op) ==
    IF op = "getConnectionStatus"
    THEN IntResult(op, StatusDisconnected)
    ELSE BoolResult(op, FALSE)

\* What an API function returns for a handle the map does not hold.
NotFound(op) ==
    IF op = "getConnectionStatus"
    THEN IntResult(op, StatusUnknown)
    ELSE BoolResult(op, FALSE)

\* The outcome r of a call that did not find the handle h in the map.
OnMissing(r, h) ==
    [r EXCEPT !.target = IF h \in destroyed THEN "destroyed" ELSE "unknown"]

\* Mutant: the counter is not advanced.
NextClientId_Same(id) == id

\* g_nextClientId++
NextClientId(id) == Inc32(id)

\* The sessions that exist: constructed and not yet destroyed.
Live == {h \in Handles : wpc[h] # "none" /\ h \notin destroyed}

\* A calling thread is inside op at pc, holding the registry lock (the
\* threads that call meanwhile wait for the lock).
Holding(op, pc) ==
    /\ g_clientsMutex = Caller
    /\ call.op = op
    /\ call.pc = pc

\* MoqCreateClient up to make_unique: the registry lock is taken, the handle
\* allocated, the session constructed and its worker thread started.
CreateConstruct ==
    /\ RegistryFree
    /\ g_nextClientId \in Handles
    /\ Cardinality(Live) < MaxLive
    /\ LET h == g_nextClientId IN
        /\ g_clientsMutex' = Caller
        /\ g_nextClientId' = NextClientId(g_nextClientId)
        /\ call' = [pc |-> "constructed", op |-> "create", handle |-> h]
        /\ running_' = [running_ EXCEPT ![h] = TRUE]
        /\ connectionStatus_' = [connectionStatus_ EXCEPT ![h] = StatusDisconnected]
        /\ frameQueue_' = [frameQueue_ EXCEPT ![h] = <<>>]
        /\ currentFrame_' = [currentFrame_ EXCEPT ![h] = DefaultFrame]
        /\ hasNewFrame_' = [hasNewFrame_ EXCEPT ![h] = FALSE]
        /\ mutex_' = [mutex_ EXCEPT ![h] = NoThread]
        /\ wpc' = [wpc EXCEPT ![h] = "start"]
        /\ frameCount' = [frameCount EXCEPT ![h] = 0]
        /\ frame' = [frame EXCEPT ![h] = DefaultFrame]
        /\ consumed' = [consumed EXCEPT ![h] = FALSE]
    /\ UNCHANGED <<g_clients, last, iters, created, destroyed>>

\* MoqCreateClient from the insertion into g_clients to the return.
CreateRegister ==
    /\ Holding("create", "constructed")
    /\ g_clients' = g_clients \cup {call.handle}
    /\ created' = Append(created, call.handle)
    /\ last' = IntResult("create", call.handle)
    /\ call' = NoCall
    /\ g_clientsMutex' = NoThread
    /\ UNCHANGED <<g_nextClientId, sessionVars, mutex_, workerVars, destroyed,
                   consumed>>

\* Mutant: the entry stays in the map.
Erased_Kept(m, h) == m

\* g_clients.erase(it)
Erased(m, h) == m \ {h}

\* Mutant: the destructor does not wait for the thread.
WorkerJoined_NoWait(h) == h \in Handles

\* The join of the destructor: the worker thread has returned.
WorkerJoined(h) == wpc[h] = "exited"

\* Mutant: the join is inside the destructor's locked block.
SessionLockAtJoin_Held == Caller

\* The holder of the session lock when the destructor reaches the join: the
\* lock_guard's block has ended.
SessionLockAtJoin == NoThread

\* MoqDestroyClient(h) up to the join.  On a handle the map does not hold
\* nothing happens.  On one it holds, the destructor takes the session lock,
\* clears running_ and releases it; the registry lock stays held.
DestroyStop(h) ==
    /\ RegistryFree
    /\ IF Registered(h)
       THEN /\ SessionFree(h)
            /\ running_' = [running_ EXCEPT ![h] = FALSE]
            /\ mutex_' = [mutex_ EXCEPT ![h] = SessionLockAtJoin]
            /\ g_clientsMutex' = Caller
            /\ call' = [pc |-> "join", op |-> "destroy", handle |-> h]
            /\ UNCHANGED last
       ELSE /\ last' = OnMissing(Returned("destroy"), h)
            /\ UNCHANGED <<running_, mutex_, g_clientsMutex, call>>
    /\ UNCHANGED <<registryVars, connectionStatus_, frameQueue_, currentFrame_,
                   hasNewFrame_, workerVars, historyVars>>

\* The destructor's join ends, the members are destroyed (the fields of a
\* session that no longer exists are kept at their initial values), the map
\* entry is gone, MoqDestroyClient returns.
DestroyJoin ==
    /\ Holding("destroy", "join")
    /\ LET h == call.handle IN
        /\ WorkerJoined(h)
        /\ g_clients' = Erased(g_clients, h)
        /\ destroyed' = destroyed \cup {h}
        /\ connectionStatus_' = [connectionStatus_ EXCEPT ![h] = StatusDisconnected]
        /\ frameQueue_' = [frameQueue_ EXCEPT ![h] = <<>>]
        /\ currentFrame_' = [currentFrame_ EXCEPT ![h] = DefaultFrame]
        /\ hasNewFrame_' = [hasNewFrame_ EXCEPT ![h] = FALSE]
        /\ consumed' = [consumed EXCEPT ![h] = FALSE]
        /\ last' = Returned("destroy")
    /\ call' = NoCall
    /\ g_clientsMutex' = NoThread
    /\ UNCHANGED <<g_nextClientId, running_, mutex_, workerVars, created>>

\* ------------------------------------------------------------ the session
\* MoqClientImpl::update: whether a frame is taken from the queue.
Drains(h) == frameQueue_[h] # <<>>

\* MoqClientImpl::update: the frame that becomes the current frame.
DrainedFrame(q) == Head(q)

\* MoqClientImpl::update: the queue after the drain.
AfterDrain(q) == Tail(q)

\* Mutant: update reports whether the session is connected.
UpdateResult_Connected(status) == status >= StatusConnected

\* MoqClientImpl::update: the value returned.
UpdateResult(status) == status >= 0

\* MoqUpdateClient(h), called by any thread: both locks are taken and
\* released within the call.
Update(h) ==
    /\ RegistryFree
    /\ IF Registered(h)
       THEN /\ SessionFree(h)
            /\ IF Drains(h)
               THEN /\ currentFrame_' = [currentFrame_ EXCEPT ![h] = DrainedFrame(frameQueue_[h])]
                    /\ frameQueue_' = [frameQueue_ EXCEPT ![h] = AfterDrain(frameQueue_[h])]
                    /\ hasNewFrame_' = [hasNewFrame_ EXCEPT ![h] = TRUE]
                    /\ consumed' = [consumed EXCEPT ![h] = FALSE]
               ELSE UNCHANGED <<currentFrame_, frameQueue_, hasNewFrame_, consumed>>
            /\ last' = BoolResult("update", UpdateResult(connectionStatus_[h]))
       ELSE /\ last' = OnMissing(NotFound("update"), h)
            /\ UNCHANGED <<currentFrame_, frameQueue_, hasNewFrame_, consumed>>
    /\ UNCHANGED <<registryVars, g_clientsMutex, call, running_,
                   connectionStatus_, mutex_, workerVars, created, destroyed>>

\* MoqClientImpl::getFrameInfo: whether the dimensions are returned.
InfoAvailable(h) == hasNewFrame_[h]

\* MoqGetFrameInfo(h, &width, &height).
GetFrameInfo(h) ==
    /\ RegistryFree
    /\ IF Registered(h)
       THEN /\ SessionFree(h)
            /\ IF InfoAvailable(h)
               THEN last' = [BoolResult("getFrameInfo", TRUE) EXCEPT
                                 !.width = currentFrame_[h].width,
                                 !.height = currentFrame_[h].height]
               ELSE last' = BoolResult("getFrameInfo", FALSE)
       ELSE last' = OnMissing(NotFound("getFrameInfo"), h)
    /\ UNCHANGED <<registryVars, g_clientsMutex, call, sessionVars, mutex_,
                   workerVars, historyVars>>

\* MoqClientImpl::getFrameData: there is an unread frame with pixels.
DataAvailable(h) == hasNewFrame_[h] /\ currentFrame_[h].len # 0

\* Mutant: a buffer of exactly the frame's size is refused.
BufferFits_Strict(size, dataSize) == size > dataSize

\* MoqClientImpl::getFrameData: the caller's buffer holds the frame.
BufferFits(size, dataSize) == size >= dataSize

\* Mutant: the unread flag is left set.
FlagAfterRead_Kept == TRUE

\* MoqClientImpl::getFrameData: the unread flag after a successful copy.
FlagAfterRead == FALSE

\* The bytes memcpy leaves in the caller's buffer: the pixels of f.
Copied(f) == [len |-> f.len, phase |-> f.phase, n |-> f.n]

\* MoqGetFrameData(h, data, size).
GetFrameData(h, size) ==
    /\ RegistryFree
    /\ IF Registered(h)
       THEN /\ SessionFree(h)
            /\ IF DataAvailable(h) /\ BufferFits(size, currentFrame_[h].len)
               THEN /\ last' = [BoolResult("getFrameData", TRUE) EXCEPT
                                 !.copied = Copied(currentFrame_[h])]
                    /\ hasNewFrame_' = [hasNewFrame_ EXCEPT ![h] = FlagAfterRead]
                    /\ consumed' = [consumed EXCEPT ![h] = TRUE]
               ELSE /\ last' = BoolResult("getFrameData", FALSE)
                    /\ UNCHANGED <<hasNewFrame_, consumed>>
       ELSE /\ last' = OnMissing(NotFound("getFrameData"), h)
            /\ UNCHANGED <<hasNewFrame_, consumed>>
    /\ UNCHANGED <<registryVars, g_clientsMutex, call, running_,
                   connectionStatus_, frameQueue_, currentFrame_, mutex_,
                   workerVars, created, destroyed>>

\* MoqGetConnectionStatus(h).
GetConnectionStatus(h) ==
    /\ RegistryFree
    /\ IF Registered(h)
       THEN /\ SessionFree(h)
            /\ last' = IntResult("getConnectionStatus", connectionStatus_[h])
       ELSE last' = OnMissing(NotFound("getConnectionStatus"), h)
    /\ UNCHANGED <<registryVars, g_clientsMutex, call, sessionVars, mutex_,
                   workerVars, historyVars>>

\* -------------------------------------------------------------- the worker
\* Mutant: the status is set to Connected before the handshake.
WorkerConnecting_AsConnected(h) ==
    /\ wpc[h] = "start"
    /\ SessionFree(h)
    /\ connectionStatus_' = [connectionStatus_ EXCEPT ![h] = StatusConnected]
    /\ wpc' = [wpc EXCEPT ![h] = "handshake"]
    /\ UNCHANGED <<registryVars, g_clientsMutex, call, last, running_,
                   frameQueue_, currentFrame_, hasNewFrame_, mutex_, frameCount,
                   frame, iters, historyVars>>

\* workerFunction, first block: the status becomes Connecting.
WorkerConnecting(h) ==
    /\ wpc[h] = "start"
    /\ SessionFree(h)
    /\ connectionStatus_' = [connectionStatus_ EXCEPT ![h] = StatusConnecting]
    /\ wpc' = [wpc EXCEPT ![h] = "handshake"]
    /\ UNCHANGED <<registryVars, g_clientsMutex, call, last, running_,
                   frameQueue_, currentFrame_, hasNewFrame_, mutex_, frameCount,
                   frame, iters, historyVars>>

\* Mutant: the handshake ends without the status being set.
WorkerConnected_StatusKept(h) ==
    /\ wpc[h] = "handshake"
    /\ SessionFree(h)
    /\ wpc' = [wpc EXCEPT ![h] = "loop"]
    /\ UNCHANGED <<registryVars, g_clientsMutex, call, last, sessionVars,
                   mutex_, frameCount, frame, iters, historyVars>>

\* workerFunction, after the 500 ms sleep: the status becomes Connected.
WorkerConnected(h) ==
    /\ wpc[h] = "handshake"
    /\ SessionFree(h)
    /\ connectionStatus_' = [connectionStatus_ EXCEPT ![h] = StatusConnected]
    /\ wpc' = [wpc EXCEPT ![h] = "loop"]
    /\ UNCHANGED <<registryVars, g_clientsMutex, call, last, running_,
                   frameQueue_, currentFrame_, hasNewFrame_, mutex_, frameCount,
                   frame, iters, historyVars>>

\* Mutant: a worker that leaves its loop sets the status to Disconnected.
WorkerEnter_DisconnectsOnExit(h) ==
    /\ wpc[h] = "loop"
    /\ SessionFree(h)
    /\ IF running_[h]
       THEN /\ iters < MaxIters
            /\ mutex_' = [mutex_ EXCEPT ![h] = Worker]
            /\ wpc' = [wpc EXCEPT ![h] = "generate"]
       ELSE /\ wpc' = [wpc EXCEPT ![h] = "exited"]
            /\ connectionStatus_' =
                    [connectionStatus_ EXCEPT ![h] = StatusDisconnected]
            /\ UNCHANGED mutex_
    /\ running_[h] => UNCHANGED connectionStatus_
    /\ UNCHANGED <<registryVars, g_clientsMutex, call, last, running_,
                   frameQueue_, currentFrame_, hasNewFrame_, frameCount, frame,
                   iters, historyVars>>

\* Top of the loop: the session lock is taken and running_ is read.  With
\* running_ cleared the loop is left (the lock released, the thread ends);
\* otherwise the worker goes on, holding the lock.
WorkerEnter(h) ==
    /\ wpc[h] = "loop"
    /\ SessionFree(h)
    /\ IF running_[h]
       THEN /\ iters < MaxIters
            /\ mutex_' = [mutex_ EXCEPT ![h] = Worker]
            /\ wpc' = [wpc EXCEPT ![h] = "generate"]
       ELSE /\ wpc' = [wpc EXCEPT ![h] = "exited"]
            /\ UNCHANGED mutex_
    /\ UNCHANGED <<registryVars, g_clientsMutex, call, last, sessionVars,
                   frameCount, frame, iters, historyVars>>

\* The test frame is built (inside the locked block).
WorkerGenerate(h) ==
    /\ wpc[h] = "generate"
    /\ \E ts \in TimestampOutcomes(frameCount[h]) :
        frame' = [frame EXCEPT ![h] = GeneratedFrame(frameCount[h], ts)]
    /\ wpc' = [wpc EXCEPT ![h] = "push"]
    /\ UNCHANGED <<registryVars, g_clientsMutex, call, last, sessionVars, mutex_,
                   frameCount, iters, historyVars>>

\* Mutant: the admission test off by one.
HasRoom_OffByOne(q) == Len(q) <= QueueCapacity

\* The admission test of the push.
HasRoom(q) == Len(q) < QueueCapacity

\* Mutant: a full queue evicts its oldest frame.
Pushed_DropOldest(q, f) ==
    IF HasRoom(q) THEN Append(q, f) ELSE Append(Tail(q), f)

\* The queue after the push of f.
Pushed(q, f) == IF HasRoom(q) THEN Append(q, f) ELSE q

\* The frame is pushed or dropped, the lock released, frameCount advanced.
WorkerPush_OverwritesCurrent(h) ==
    /\ wpc[h] = "push"
    /\ frameQueue_' = [frameQueue_ EXCEPT ![h] = Pushed(@, frame[h])]
    /\ currentFrame_' = [currentFrame_ EXCEPT ![h] = frame[h]]
    /\ hasNewFrame_' = [hasNewFrame_ EXCEPT ![h] = TRUE]
    /\ frame' = [frame EXCEPT ![h] = DefaultFrame]
    /\ mutex_' = [mutex_ EXCEPT ![h] = NoThread]
    /\ frameCount' = [frameCount EXCEPT ![h] = Inc32(@)]
    /\ iters' = iters + 1
    /\ wpc' = [wpc EXCEPT ![h] = "sleep"]
    /\ UNCHANGED <<registryVars, g_clientsMutex, call, last, running_,
                   connectionStatus_, historyVars>>

WorkerPush(h) ==
    /\ wpc[h] = "push"
    /\ frameQueue_' = [frameQueue_ EXCEPT ![h] = Pushed(@, frame[h])]
    /\ frame' = [frame EXCEPT ![h] = DefaultFrame]
    /\ mutex_' = [mutex_ EXCEPT ![h] = NoThread]
    /\ frameCount' = [frameCount EXCEPT ![h] = Inc32(@)]
    /\ iters' = iters + 1
    /\ wpc' = [wpc EXCEPT ![h] = "sleep"]
    /\ UNCHANGED <<registryVars, g_clientsMutex, call, last, running_,
                   connectionStatus_, currentFrame_, hasNewFrame_, historyVars>>

\* The 16 ms sleep ends.
WorkerWake(h) ==
    /\ wpc[h] = "sleep"
    /\ wpc' = [wpc EXCEPT ![h] = "loop"]
    /\ UNCHANGED <<registryVars, g_clientsMutex, call, last, sessionVars, mutex_,
                   frameCount, frame, iters, historyVars>>

\* -------------------------------------------------------------------- Next
Next ==
    \/ CreateConstruct
    \/ CreateRegister
    \/ \E h \in HandleArgs : DestroyStop(h)
    \/ DestroyJoin
    \/ \E h \in HandleArgs : Update(h)
    \/ \E h \in HandleArgs : GetFrameInfo(h)
    \/ \E h \in HandleArgs, size \in BufferSizes : GetFrameData(h, size)
    \/ \E h \in HandleArgs : GetConnectionStatus(h)
    \/ \E h \in Handles : WorkerConnecting(h)
    \/ \E h \in Handles : WorkerConnected(h)
    \/ \E h \in Handles : WorkerEnter(h)
    \/ \E h \in Handles : WorkerGenerate(h)
    \/ \E h \in Handles : WorkerPush(h)
    \/ \E h \in Handles : WorkerWake(h)

Spec == Init /\ [][Next]_vars

\* One step of the worker thread of session h.
WorkerStep(h) ==
    \/ WorkerConnecting(h)
    \/ WorkerConnected(h)
    \/ WorkerEnter(h)
    \/ WorkerGenerate(h)
    \/ WorkerPush(h)
    \/ WorkerWake(h)

\* Fair scheduling: a worker thread that can take a step eventually takes
\* one (its sleeps end, the session lock is handed to it), a thread whose
\* join can end returns from MoqDestroyClient, and a thread inside
\* MoqCreateClient goes on to its return.
Fairness ==
    /\ \A h \in Handles : WF_vars(WorkerStep(h))
    /\ WF_vars(DestroyJoin)
    /\ WF_vars(CreateRegister)

SpecFair == Spec /\ Fairness

\* ------------------------------------------------- runs from a later state
\* Frame number fc with its timestamp in the int range, as the worker
\* generated it.
ExactFrame(fc) == GeneratedFrame(fc, Product(fc, TimestampStep))

\* The frames fc - k .. fc - 1 in production order.
RECURSIVE RecentFrames(_, _)
RecentFrames(fc, k) ==
    IF k = 0 THEN <<>> ELSE Append(RecentFrames(fc - 1, k - 1), ExactFrame(fc - 1))

\* The first frame number whose timestamp product leaves the int range.
FirstOverflowFrame == (Int32Max \div TimestampStep) + 1

\* The handle of the session that runs when such a run starts.
RunningHandle == MaxClients - 1

\* The state in which the sessions before RunningHandle have come and gone,
\* session RunningHandle has been created, its worker has completed fc
\* iterations and is in its pacing sleep, and the last QueueCapacity frames
\* are queued.  With fc = QueueCapacity the callers have not polled yet;
\* with a larger fc they have drained and read frame fc - QueueCapacity - 1
\* and not polled since.
Running(fc) ==
    LET s == RunningHandle
        polled == fc > QueueCapacity
        read == ExactFrame(fc - QueueCapacity - 1)
    IN
    /\ g_clients = {s}
    /\ g_nextClientId = s + 1
    /\ g_clientsMutex = NoThread
    /\ call = NoCall
    /\ last = IF polled
              THEN [BoolResult("getFrameData", TRUE) EXCEPT !.copied = Copied(read)]
              ELSE IntResult("create", s)
    /\ running_ = [h \in Handles |-> h = s]
    /\ connectionStatus_ = [h \in Handles |->
            IF h = s THEN StatusConnected ELSE StatusDisconnected]
    /\ frameQueue_ = [h \in Handles |->
            IF h = s THEN RecentFrames(fc, QueueCapacity) ELSE <<>>]
    /\ currentFrame_ = [h \in Handles |->
            IF h = s /\ polled THEN read ELSE DefaultFrame]
    /\ hasNewFrame_ = [h \in Handles |-> FALSE]
    /\ mutex_ = [h \in Handles |-> NoThread]
    /\ wpc = [h \in Handles |->
            IF h = s THEN "sleep" ELSE IF h < s THEN "exited" ELSE "none"]
    /\ frameCount = [h \in Handles |-> IF h = s THEN fc ELSE 0]
    /\ frame = [h \in Handles |-> DefaultFrame]
    /\ iters = 0
    /\ created = [i \in 1 .. s |-> i]
    /\ destroyed = 1 .. (s - 1)
    /\ consumed = [h \in Handles |-> h = s /\ polled]

\* A run that starts with the session's queue full of its first frames.
InitRunning == Running(QueueCapacity)

SpecRunning == InitRunning /\ [][Next]_vars

\* A run that starts just before the worker's timestamp product leaves the
\* int range (some 36 minutes after the session was created).
InitLong == Running(FirstOverflowFrame)

SpecLong == InitLong /\ [][Next]_vars

\* ================================================================== claims
\* Everything but the value the latest call returned.
stateButLast ==
    <<g_clients, g_nextClientId, g_clientsMutex, call, running_,
      connectionStatus_, frameQueue_, currentFrame_, hasNewFrame_, mutex_, wpc,
      frameCount, frame, iters, created, destroyed, consumed>>

\* The step returns from op.  Every API action records its name in last',
\* so a step that is a call of op satisfies Returns(op); the formulas below
\* test it before they test the action itself.
Returns(op) == last'.op = op

\* C1: in every reachable state, every session's frame queue holds at most
\* 5 frames, however the worker and the foreground calls interleave.
C1_QueueBounded ==
    \A h \in Handles : Len(frameQueue_[h]) <= 5

\* A full queue on which the worker has attempted a further push.
C1_Witness ==
    \E h \in Handles :
        /\ Len(frameQueue_[h]) = QueueCapacity
        /\ wpc[h] = "sleep"
        /\ frameCount[h] > frameQueue_[h][QueueCapacity].n + 1

\* C2: a push onto a queue that holds 5 frames drops the new frame, leaves
\* the queue's contents and order as they are, and does not block the
\* worker: the push step can always be taken, releases the session lock and
\* takes the worker on to its pacing sleep and next iteration.
C2_FullQueueDropsNew ==
    /\ [](\A h \in Handles : wpc[h] = "push" => ENABLED WorkerPush(h))
    /\ [][\A h \in Handles :
            (WorkerPush(h) /\ Len(frameQueue_[h]) = 5) =>
                /\ frameQueue_'[h] = frameQueue_[h]
                /\ mutex_'[h] = NoThread
                /\ wpc'[h] = "sleep"
                /\ frameCount'[h] = frameCount[h] + 1]_vars

\* The worker back at the top of its loop after its frame was dropped.
C2_Witness ==
    \E h \in Handles :
        /\ wpc[h] = "loop"
        /\ frameCount[h] = QueueCapacity + 1
        /\ frameQueue_[h] = RecentFrames(QueueCapacity, QueueCapacity)

\* C3: update moves the oldest queued frame into the current-frame slot;
\* the frames that become current are in production order, and of two
\* consecutively drained frames the later has the strictly larger timestamp.
C3_DrainedInOrder ==
    [][\A h \in Handles :
        (Registered(h) /\ Drains(h) /\ Returns("update") /\ Update(h)) =>
            /\ currentFrame_'[h] = Head(frameQueue_[h])
            /\ frameQueue_'[h] = Tail(frameQueue_[h])
            /\ currentFrame_[h] # DefaultFrame =>
                /\ currentFrame_[h].n < currentFrame_'[h].n
                /\ Less64(currentFrame_[h].timestamp,
                          currentFrame_'[h].timestamp)]_vars

\* C4: once MoqDestroyClient has returned for a session, that session's
\* worker thread has terminated, and no frame enters its queue afterwards.
C4_DestroyJoinsWorker ==
    [][\A h \in Handles :
        h \in destroyed' =>
            /\ wpc'[h] = "exited"
            /\ h \in destroyed => frameQueue_'[h] = frameQueue_[h]]_vars

\* A destroyed session whose worker had completed an iteration.
C4_Witness ==
    \E h \in destroyed :
        /\ wpc[h] = "exited"
        /\ frameCount[h] >= 1
        /\ last.op = "destroy"

\* What a call on handle h does when h is treated as unknown: update,
\* getFrameInfo and getFrameData return false, getConnectionStatus returns
\* a negative value, destroy does nothing, and nothing but the returned
\* value changes.
AsUnknown(h) ==
    /\ (Returns("update") /\ Update(h)) =>
            (last'.ok = FALSE /\ UNCHANGED stateButLast)
    /\ (Returns("getFrameInfo") /\ GetFrameInfo(h)) =>
            /\ last'.ok = FALSE
            /\ last'.width = Unwritten
            /\ last'.height = Unwritten
            /\ UNCHANGED stateButLast
    /\ \A size \in BufferSizes :
            (Returns("getFrameData") /\ GetFrameData(h, size)) =>
                /\ last'.ok = FALSE
                /\ last'.copied = NoCopy
                /\ UNCHANGED stateButLast
    /\ (Returns("getConnectionStatus") /\ GetConnectionStatus(h)) =>
            /\ last'.value < 0
            /\ last'.value = -1
            /\ UNCHANGED stateButLast
    /\ (Returns("destroy") /\ DestroyStop(h)) => UNCHANGED stateButLast

\* C5: once destroy has returned for a handle, the handle is never
\* registered again, whatever is created later, and every later call on it
\* behaves as on an unknown handle.
C5_DestroyedIsUnknown ==
    [][\A h \in destroyed : h \notin g_clients' /\ AsUnknown(h)]_vars

\* A status query on a destroyed handle has returned -1 while a session
\* created after the destroy is registered.
C5_Witness ==
    /\ \E h \in destroyed : \E g \in g_clients : g > h
    /\ last.target = "destroyed"
    /\ last.op = "getConnectionStatus"
    /\ last.value = StatusUnknown

\* C6: a call on a handle that is not in the registry (0, a negative one,
\* one not created yet) returns false, or -1 for the status, or does
\* nothing for destroy, and changes neither the registry nor any session.
C6_UnknownHandle ==
    [][\A h \in HandleArgs : ~Registered(h) => AsUnknown(h)]_vars

\* An update has returned false while a session is registered and no
\* handle has been destroyed.
C6_Witness ==
    /\ g_clients # {}
    /\ destroyed = {}
    /\ last.target = "unknown"
    /\ last.op = "update"
    /\ last.ok = FALSE

\* The unread flag and the current frame of a registered session change
\* only in an update or a getFrameData on that session, or in its destroy.
SlotKeptBetweenCalls ==
    \A h \in g_clients :
        (\/ hasNewFrame_'[h] # hasNewFrame_[h]
         \/ currentFrame_'[h] # currentFrame_[h]) =>
            \/ Returns("update") /\ Update(h)
            \/ Returns("getFrameData") /\ \E size \in BufferSizes : GetFrameData(h, size)
            \/ Returns("destroy") /\ DestroyJoin

\* C7: getFrameData with a buffer smaller than the unread frame returns
\* false, copies nothing, and leaves the unread flag set and the current
\* frame and the queue as they are; the flag and the frame then stay as they
\* are until the next update or getFrameData on the session, and a
\* getFrameData on an unread frame with a buffer of at least the frame's
\* size returns true with that frame.
C7_SmallBufferKeepsFrame ==
    [][/\ SlotKeptBetweenCalls
       /\ \A h \in Handles : \A size \in BufferSizes :
            (Registered(h) /\ Returns("getFrameData") /\ GetFrameData(h, size)) =>
                /\ (hasNewFrame_[h] /\ size < currentFrame_[h].len) =>
                        /\ last'.ok = FALSE
                        /\ last'.copied = NoCopy
                        /\ hasNewFrame_'[h]
                        /\ currentFrame_'[h] = currentFrame_[h]
                        /\ frameQueue_'[h] = frameQueue_[h]
                /\ (hasNewFrame_[h] /\ size >= currentFrame_[h].len) =>
                        /\ last'.ok = TRUE
                        /\ last'.copied = Copied(currentFrame_[h])]_vars

\* A getFrameData on the one registered session has just failed on its
\* unread frame.
C7_Witness ==
    \E h \in Handles :
        /\ g_clients = {h}
        /\ hasNewFrame_[h]
        /\ last.op = "getFrameData"
        /\ last.target = "session"
        /\ last.ok = FALSE

\* C8: after getFrameData has returned true, getFrameData and getFrameInfo
\* on that session return false until an update drains a new frame; an
\* update that finds the queue empty leaves the unread flag and the current
\* frame as they are.
C8_ConsumedOnce ==
    [][\A h \in Handles :
        /\ (consumed[h] /\ Registered(h)) =>
            /\ (Returns("getFrameInfo") /\ GetFrameInfo(h)) => last'.ok = FALSE
            /\ \A size \in BufferSizes :
                    (Returns("getFrameData") /\ GetFrameData(h, size)) =>
                        (last'.ok = FALSE /\ last'.copied = NoCopy)
        /\ (/\ Registered(h)
            /\ frameQueue_[h] = <<>>
            /\ Returns("update")
            /\ Update(h)) =>
            /\ hasNewFrame_'[h] = hasNewFrame_[h]
            /\ currentFrame_'[h] = currentFrame_[h]
            /\ consumed'[h] = consumed[h]]_vars

\* A second getFrameData has returned false on a frame already read.
C8_Witness ==
    \E h \in g_clients :
        /\ consumed[h]
        /\ currentFrame_[h] # DefaultFrame
        /\ last.op = "getFrameData"
        /\ last.ok = FALSE

\* C9: a getFrameInfo that returns true reports the current frame's
\* dimensions and consumes nothing; the flag and the frame then stay as they
\* are until the next update or getFrameData on the session, and a
\* getFrameData on an unread frame with a buffer of at least width*height*4
\* bytes returns true and copies exactly width*height*4 bytes of that frame;
\* whenever the unread flag is set the current frame's pixel length is
\* width*height*4.
C9_InfoMatchesData ==
    [][SlotKeptBetweenCalls /\ \A h \in Handles :
        /\ hasNewFrame_'[h] =>
            currentFrame_'[h].len =
                currentFrame_'[h].width * currentFrame_'[h].height * 4
        /\ (/\ Registered(h)
            /\ Returns("getFrameInfo")
            /\ last'.ok = TRUE
            /\ GetFrameInfo(h)) =>
            /\ hasNewFrame_[h]
            /\ last'.width = currentFrame_[h].width
            /\ last'.height = currentFrame_[h].height
            /\ hasNewFrame_'[h]
            /\ currentFrame_'[h] = currentFrame_[h]
            /\ frameQueue_'[h] = frameQueue_[h]
        /\ \A size \in BufferSizes :
            (/\ Registered(h)
             /\ hasNewFrame_[h]
             /\ size >= currentFrame_[h].width * currentFrame_[h].height * 4
             /\ Returns("getFrameData")
             /\ GetFrameData(h, size)) =>
                /\ last'.ok = TRUE
                /\ last'.copied = Copied(currentFrame_[h])
                /\ last'.copied.len =
                        currentFrame_[h].width * currentFrame_[h].height * 4]_vars

\* getFrameInfo on the one registered session has just returned the
\* dimensions of its unread frame.
C9_Witness ==
    \E h \in Handles :
        /\ g_clients = {h}
        /\ hasNewFrame_[h]
        /\ last.op = "getFrameInfo"
        /\ last.target = "session"
        /\ last.ok = TRUE
        /\ last.width = FrameWidth
        /\ last.height = FrameHeight

\* C10: the handles create returns are 1, 2, 3, ... in the order of the
\* calls: positive, strictly increasing, never returned twice (also after a
\* destroy); every registered handle was returned by create and names one
\* live session.
C10_HandlesUnique ==
    /\ \A i \in 1 .. Len(created) :
        /\ created[i] > 0
        /\ i = 1 => created[i] = 1
        /\ i > 1 => created[i] > created[i - 1]
    /\ \A h \in g_clients :
        /\ h \in Live
        /\ \E i \in 1 .. Len(created) : created[i] = h

\* A create has returned after an earlier session was destroyed.
C10_Witness ==
    /\ Len(created) >= 2
    /\ destroyed # {}
    /\ last.op = "create"
    /\ last.value = created[Len(created)]

\* C11: update on a registered handle returns true exactly when the
\* session's status at the call is non-negative, whether or not a frame was
\* drained; on a handle that is not registered it returns false.
C11_UpdateReportsStatus ==
    [][\A h \in HandleArgs :
        (Returns("update") /\ Update(h)) =>
            IF Registered(h)
            THEN last'.ok = (connectionStatus_[h] >= 0)
            ELSE last'.ok = FALSE]_vars

\* An update has returned true on the one registered session, which is not
\* connected yet and had no frame to drain.
C11_Witness ==
    \E h \in Handles :
        /\ g_clients = {h}
        /\ connectionStatus_[h] < StatusConnected
        /\ currentFrame_[h] = DefaultFrame
        /\ last.op = "update"
        /\ last.target = "session"
        /\ last.ok = TRUE

\* C12: under fair scheduling the status of a registered session becomes
\* Connected; once its worker has completed an iteration, a session from
\* which no frame was drained yet has a frame queued, an update on it returns
\* true and leaves an unread frame, and a getFrameInfo on an unread frame
\* returns true with width 640 and height 480.
C12_ConnectsAndDelivers ==
    /\ \A h \in Handles :
            (h \in g_clients) ~> (connectionStatus_[h] = 2)
    /\ [](\A h \in g_clients :
            (frameCount[h] >= 1 /\ currentFrame_[h] = DefaultFrame) =>
                /\ connectionStatus_[h] = 2
                /\ frameQueue_[h] # <<>>)
    /\ [][\A h \in g_clients :
            /\ (/\ frameCount[h] >= 1
                /\ currentFrame_[h] = DefaultFrame
                /\ Returns("update")
                /\ Update(h)) =>
                    /\ last'.ok = TRUE
                    /\ hasNewFrame_'[h]
            /\ (hasNewFrame_[h] /\ Returns("getFrameInfo") /\ GetFrameInfo(h)) =>
                    /\ last'.ok = TRUE
                    /\ last'.width = 640
                    /\ last'.height = 480]_vars

\* The first update on a connected session has returned true and left the
\* worker's first frame unread.
C12_Witness ==
    \E h \in Handles :
        /\ g_clients = {h}
        /\ connectionStatus_[h] = StatusConnected
        /\ hasNewFrame_[h]
        /\ currentFrame_[h].n = 0
        /\ last.op = "update"
        /\ last.target = "session"
        /\ last.ok = TRUE

\* C13: getConnectionStatus on a registered handle whose worker has not
\* completed the handshake returns 0 or 1 (0 before the worker's first
\* statement, 1 during the handshake delay), never a negative value and
\* never 2.
C13_StatusBeforeHandshake ==
    [][\A h \in g_clients :
        (/\ wpc[h] \in {"start", "handshake"}
         /\ Returns("getConnectionStatus")
         /\ GetConnectionStatus(h)) =>
            /\ last'.value \in {0, 1}
            /\ last'.value >= 0
            /\ last'.value = IF wpc[h] = "start" THEN 0 ELSE 1]_vars

\* A status query on the one registered session has returned 1 during the
\* handshake delay.
C13_Witness ==
    \E h \in Handles :
        /\ g_clients = {h}
        /\ wpc[h] = "handshake"
        /\ last.op = "getConnectionStatus"
        /\ last.target = "session"
        /\ last.value = 1

\* C14: a worker that is generating a frame holds neither the session lock
\* nor the registry lock, and it holds the session lock only for the push.
C14_NoLockWhileGenerating ==
    \A h \in Handles :
        /\ wpc[h] = "generate" =>
                (mutex_[h] # Worker /\ g_clientsMutex # Worker)
        /\ mutex_[h] = Worker => wpc[h] = "push"

\* C15: no thread holds the registry lock while it waits for a worker thread
\* to terminate, so a call on another handle can take the registry lock
\* while a session is being shut down.
C15_NoJoinUnderRegistryLock ==
    \A h \in Handles :
        (call.op = "destroy" /\ call.handle = h /\ wpc[h] # "exited") =>
            /\ g_clientsMutex = NoThread
            /\ \A g \in HandleArgs \ {h} : ENABLED GetConnectionStatus(g)

\* Shutdown of session h has been requested (the destructor has cleared
\* running_) and its worker has not exited yet.
Stopping(h) ==
    /\ Registered(h)
    /\ ~running_[h]
    /\ wpc[h] \notin {"none", "exited"}

\* C16: once shutdown is requested the worker pushes no further frame, sits
\* out at most one pacing sleep and no longer wait (it does not go on to
\* complete the handshake delay), and then leaves its loop; under fair
\* scheduling the worker terminates and destroy returns.
C16_PromptShutdown ==
    /\ [][\A h \in Handles :
            Stopping(h) =>
                /\ frameQueue_'[h] = frameQueue_[h] \/ h \in destroyed'
                /\ wpc'[h] \notin {"generate", "push"}
                /\ wpc[h] = "loop" => wpc'[h] \in {"loop", "exited"}
                /\ ~WorkerConnected(h)]_vars
    /\ \A h \in Handles : Stopping(h) ~> (wpc[h] = "exited")
    /\ (call.op = "destroy") ~> (call = NoCall)

\* The place of a status in the order Disconnected, Connecting, Connected,
\* Error (any negative value).
StatusRank(status) == IF status < 0 THEN 3 ELSE status

\* C17: while a session exists its status only moves forward along
\* Disconnected, Connecting, Connected, Error; only the steps of its worker
\* change it (no API call does, teardown included); and a status query on
\* a registered handle returns the status as it is, so successive results
\* never go back.
C17_StatusMovesForward ==
    [][\A h \in Handles :
        /\ (h \notin destroyed' /\ wpc[h] # "none") =>
            /\ StatusRank(connectionStatus_'[h]) >= StatusRank(connectionStatus_[h])
            /\ connectionStatus_'[h] # connectionStatus_[h] =>
                    (WorkerConnecting(h) \/ WorkerConnected(h))
        /\ (Registered(h)
                /\ Returns("getConnectionStatus")
                /\ GetConnectionStatus(h)) =>
            last'.value = connectionStatus_[h]]_vars

\* A session that is being torn down, its worker gone, is still Connected.
C17_Witness ==
    \E h \in g_clients :
        /\ call.op = "destroy"
        /\ call.handle = h
        /\ wpc[h] = "exited"
        /\ connectionStatus_[h] = StatusConnected

\* The timestamp of frame number n when the product n * 16667 is held in a
\* 32-bit signed int that wraps.
WrappedTimestamp(n) == Wrap32(Product(n, TimestampStep))

\* C18: the timestamp a worker generates in an iteration is strictly
\* larger than the one it generated in the iteration before, for every
\* iteration count it can reach, the product being a 32-bit int that wraps.
C18_TimestampsIncrease ==
    [][\A h \in Handles :
        (frameCount[h] >= 1 /\ WorkerGenerate(h)) =>
            /\ frame'[h].timestamp \in
                    {WrappedTimestamp(frameCount[h]), Product(frameCount[h], TimestampStep)}
            /\ Less64(WrappedTimestamp(frameCount[h] - 1), frame'[h].timestamp)
            /\ Less64(WrappedTimestamp(frameCount[h] - 1),
                      WrappedTimestamp(frameCount[h]))]_vars

\* Worker h is held up only by the bound on the iterations of a run, not by
\* the program.
AtIterationBound(h) == wpc[h] = "loop" /\ running_[h] /\ iters >= MaxIters

\* C19: no reachable state has every thread blocked.  A worker that has not
\* exited can always take its next step when the session lock is free or
\* its own, and it never holds or needs the registry lock; the thread that
\* holds the registry lock can return, or the worker it waits for can step;
\* under fair scheduling every lock that is held is released, and destroy
\* returns.
C19_DeadlockFree ==
    /\ [](/\ ENABLED Next
          /\ g_clientsMutex # Worker
          /\ \A h \in Handles :
                (wpc[h] \notin {"none", "exited"} /\ ~AtIterationBound(h)) =>
                    ENABLED WorkerStep(h)
          /\ g_clientsMutex = Caller =>
                \/ call.op = "create" /\ ENABLED CreateRegister
                \/ /\ call.op = "destroy"
                   /\ \E h \in Handles :
                        /\ call.handle = h
                        /\ ENABLED DestroyJoin \/ ENABLED WorkerStep(h))
    /\ (g_clientsMutex = Caller) ~> (g_clientsMutex = NoThread)
    /\ \A h \in Handles : (mutex_[h] = Worker) ~> (mutex_[h] = NoThread)

\* A destroy waits, the registry lock held, for a worker that has run an
\* iteration and is in its pacing sleep.
C19_Witness ==
    \E h \in Handles :
        /\ g_clientsMutex = Caller
        /\ call.op = "destroy"
        /\ call.handle = h
        /\ wpc[h] = "sleep"
        /\ frameCount[h] >= 1

\* C20: no step of the worker (status change, generation, push, discarded
\* push on a full queue, sleep) changes the current-frame slot or the unread
\* flag of any session; on a registered session they change only in an
\* update that drains a frame or in a getFrameData that returns true (or
\* when the session is destroyed), so an unread current frame stays in the
\* slot, readable and with the same dimensions and pixels, across the
\* worker's pushes.
C20_WorkerKeepsSlot ==
    [][/\ \A g \in Handles :
            WorkerStep(g) =>
                /\ currentFrame_' = currentFrame_
                /\ hasNewFrame_' = hasNewFrame_
       /\ \A h \in g_clients :
            (\/ hasNewFrame_'[h] # hasNewFrame_[h]
             \/ currentFrame_'[h] # currentFrame_[h]) =>
                \/ Returns("update") /\ Update(h) /\ Drains(h)
                \/ /\ Returns("getFrameData")
                   /\ last'.ok = TRUE
                   /\ \E size \in BufferSizes : GetFrameData(h, size)
                \/ Returns("destroy") /\ DestroyJoin
       /\ \A h \in g_clients :
            (hasNewFrame_[h] /\ frameQueue_'[h] # frameQueue_[h] /\ WorkerStep(h)) =>
                /\ hasNewFrame_'[h]
                /\ currentFrame_'[h] = currentFrame_[h]
                /\ InfoAvailable(h)'
                /\ DataAvailable(h)']_vars

\* The worker has pushed a frame behind an unread current frame: the slot
\* holds frame 0, unread, and the queue is full again with a frame generated
\* after the drain at its back.
C20_Witness ==
    \E h \in g_clients :
        /\ hasNewFrame_[h]
        /\ currentFrame_[h] = ExactFrame(0)
        /\ Len(frameQueue_[h]) = QueueCapacity
        /\ frameQueue_[h][QueueCapacity] = ExactFrame(QueueCapacity)
        /\ wpc[h] = "sleep"

====
